---- MODULE Spec2Model ----
(***************************************************************************)
(* Print-preview pagination estimator of vscode-print-md.                  *)
(*                                                                         *)
(* The preview document produced by createPrintableHtml carries an inline  *)
(* script: addPageBreakIndicators measures the rendered content, computes  *)
(* the number of letter pages and appends one page-break indicator per     *)
(* page boundary, nudged by a drift-correction heuristic.  The script      *)
(* schedules one run of it 100 ms after the document is ready.             *)
(*                                                                         *)
(* Four further parts of the extension are modelled, each with its own     *)
(* state and specification: the printer choice of the 'print' message      *)
(* handler (PrintSpec), the clean-up of old temp folders (CleanSpec), the  *)
(* Python dependency installer run by npm install (InstallSpec) and the    *)
(* printMD.print command with its temp files, panel and spawned processes  *)
(* (CommandSpec).                                                          *)
(***************************************************************************)
EXTENDS Integers, Sequences, FiniteSets, TLC

VARIABLES
    panel,                 \* webview panel: "open" or "disposed"
    readyState,            \* document.readyState
    listener,              \* a DOMContentLoaded listener is registered
    timers,                \* pending setTimeout(addPageBreakIndicators, 100)
    passes,                \* invocations of addPageBreakIndicators in this document
    dom,                   \* which of #content-wrapper/.page-container/.content exist
    children,              \* indicators appended to .page-container, in DOM order
    pc,                    \* position of the script / of the running pass
    error,                 \* uncaught exception of the callback, or "none"
    totalHeight,           \* const totalHeight = content.scrollHeight
    numPages,              \* const numPages
    i,                     \* loop variable
    indicator,             \* const indicator of the current iteration
    pageBreakMarginTop,    \* var pageBreakMarginTop
    topMarIncrementer,     \* var topMarIncrementer
    topMarIncrementCount,  \* var topMarIncrementCount
    ref                    \* observer: one earlier completed pass (height, markers)

VARIABLES
    printerSelectMode,     \* setting vscode-print-md.printer.select
    lastUsedPrinter,       \* let lastUsedPrinter of activate
    globalState,           \* context.globalState value under 'lastUsedPrinter'
    selectedPrinter,       \* let selectedPrinter of the preview's script
    session,               \* the preview panel of the handler: "open" or "closed"
    hpc,                   \* position of the 'print' handler: "ready" or "dialog"
    printerToUse,          \* let printerToUse of the handler
    lastSpawn,             \* the command of the latest spawn
    spawnCount,            \* processes spawned for print requests
    running                \* spawned processes that have not closed yet

VARIABLES
    tempEntries,           \* entries of os.tmpdir(): name -> kind and mtime
    currentFolder,         \* argument of cleanTempPrintFolder
    clock,                 \* Date.now()
    cleanTimer,            \* the 20 minute timer is pending
    deleted,               \* names removed by the clean-up pass
    rmFailed               \* names whose fs.rmSync threw in the pass

VARIABLES
    platform,              \* os.platform()
    pipOk,                 \* environment: which pip invocations succeed
    pythonOk,              \* environment: 'python --version' succeeds
    pythonCmd,             \* let pythonCmd
    packages,              \* let packages
    ipc,                   \* position of the installer script
    tried,                 \* install commands run so far, in order
    printed,               \* the manual-installation message was printed
    exitCode               \* exit status of the script, -1 while it runs

VARIABLES
    now,                   \* Date.now() seen by the printMD.print command
    sessions,              \* previews created by printMD.print, in order
    files,                 \* paths that exist in the global storage folder
    procs,                 \* processes spawned by 'print' messages, in order
    cmdTimers,             \* pending clean-up timeouts of close handlers
    shown                  \* latest message shown to the user

estimatorVars == <<panel, readyState, listener, timers, passes, dom, children, pc,
                   error, totalHeight, numPages, i, indicator, pageBreakMarginTop,
                   topMarIncrementer, topMarIncrementCount, ref>>

printVars == <<printerSelectMode, lastUsedPrinter, globalState, selectedPrinter,
               session, hpc, printerToUse, lastSpawn, spawnCount, running>>

cleanVars == <<tempEntries, currentFolder, clock, cleanTimer, deleted, rmFailed>>

installVars == <<platform, pipOk, pythonOk, pythonCmd, packages, ipc, tried,
                 printed, exitCode>>

commandVars == <<now, sessions, files, procs, cmdTimers, shown>>

vars == <<estimatorVars, printVars, cleanVars, installVars, commandVars>>

\* JavaScript undefined / null
Undefined == <<"undefined">>

\* no process spawned yet
NoCommand == [html |-> "", pdf |-> "", printer |-> Undefined]

\* the parts of the extension a specification does not exercise stay as they
\* are before their first use
PrintParked ==
    /\ printerSelectMode = "default"
    /\ lastUsedPrinter = Undefined
    /\ globalState = Undefined
    /\ selectedPrinter = Undefined
    /\ session = "closed"
    /\ hpc = "ready"
    /\ printerToUse = Undefined
    /\ lastSpawn = NoCommand
    /\ spawnCount = 0
    /\ running = 0

CleanParked ==
    /\ tempEntries = <<>>
    /\ currentFolder = <<>>
    /\ clock = 0
    /\ cleanTimer = FALSE
    /\ deleted = {}
    /\ rmFailed = {}

CommandParked ==
    /\ now = 0
    /\ sessions = <<>>
    /\ files = {}
    /\ procs = <<>>
    /\ cmdTimers = {}
    /\ shown = ""

InstallParked ==
    /\ platform = "linux"
    /\ pipOk = {}
    /\ pythonOk = FALSE
    /\ pythonCmd = "python3"
    /\ packages = <<>>
    /\ ipc = "start"
    /\ tried = <<>>
    /\ printed = "none"
    /\ exitCode = -1

docVars == <<panel, readyState, listener, timers, passes, dom, error>>
passLocals == <<totalHeight, numPages, i, indicator>>
accVars == <<pageBreakMarginTop, topMarIncrementer, topMarIncrementCount>>

----------------------------------------------------------------------------
(* Bounds *)

MaxPages == 20           \* longest document measured, in pages
MaxPasses == 2           \* cap on callback runs per document (the code reaches 1)

----------------------------------------------------------------------------
(* Geometry and formatting *)

\* const pageHeight = 9.5 * 96
pageHeight == (95 * 96) \div 10

\* content.scrollHeight: on a page boundary, one pixel over it, and scenario A
Heights ==
    {k * pageHeight : k \in 0..MaxPages}
        \cup {k * pageHeight + 1 : k \in 0..(MaxPages - 1)}
        \cup {2000}

\* Math.ceil(totalHeight / pageHeight); \div rounds towards minus infinity
NumPagesFloor(h) == h \div pageHeight
NumPagesMagnitude(h) == IF h < 0 THEN -(h \div pageHeight) ELSE -((-h) \div pageHeight)
NumPages(h) == -((-h) \div pageHeight)

\* n + 'px'
Px(n) == ToString(n) \o "px"

\* const breakPosition = i * pageHeight
BreakPositionNext(idx) == (idx + 1) * pageHeight
BreakPosition(idx) == idx * pageHeight

CreateIndicatorSameNumber(idx) ==
    [className  |-> "page-break-indicator",
     top        |-> Px(BreakPosition(idx)),
     dataPage   |-> ToString(idx),
     pageNumber |-> ToString(idx),
     marginTop  |-> ""]

\* document.createElement('div') with className, style.top, data-page, --page-number
CreateIndicator(idx) ==
    [className  |-> "page-break-indicator",
     top        |-> Px(BreakPosition(idx)),
     dataPage   |-> ToString(idx),
     pageNumber |-> ToString(idx + 1),
     marginTop  |-> ""]

\* no element created yet
NoIndicator ==
    [className |-> "", top |-> "", dataPage |-> "", pageNumber |-> "", marginTop |-> ""]

\* no pass observed yet
NoPass == [height |-> -1, markers |-> <<>>]

\* shapes of the parsed document: each element exists only inside its parent
DomShapes ==
    {[wrapper |-> w, container |-> c, content |-> t] :
        w \in BOOLEAN, c \in BOOLEAN, t \in BOOLEAN}

Nested(d) == (d.content => d.container) /\ (d.container => d.wrapper)

Detached == [wrapper |-> FALSE, container |-> FALSE, content |-> FALSE]

ReadyStates == {"loading", "interactive", "complete"}

----------------------------------------------------------------------------
(* Drift-correction heuristic: the pieces of nextPageMargin *)

\* if (idx > 0) pageBreakMarginTop -= topMarIncrementer
DecrementAlways(idx, marTop, inc) == marTop - inc
Decrement(idx, marTop, inc) == IF idx > 0 THEN marTop - inc ELSE marTop

AdjustDueAtThree(idx, count) == idx >= 2 /\ count >= 3

\* if (idx >= 2) { if (topMarIncrementCount >= 5) {
AdjustDueEarly(idx, count) == idx >= 2 /\ count >= 4
AdjustDue(idx, count) == idx >= 2 /\ count >= 5

\* if (pageBreakMarginTop <= -240)
DriftLimitLoose(marTop) == marTop <= -400
DriftLimit(marTop) == marTop <= -240

\* if (i != 0) container.appendChild(indicator)
ShouldAppendAll(idx) == TRUE
ShouldAppend(idx) == idx # 0

\* if (document.readyState === 'loading') ... else setTimeout(...)
StartsTimerAlways(rs) == TRUE
StartsTimerNow(rs) == rs # "loading"

----------------------------------------------------------------------------
(* The document *)

FreshDocumentKeepsMarkers ==
    /\ panel' = "open"
    /\ readyState' \in ReadyStates
    /\ dom' \in {d \in DomShapes : Nested(d)}
    /\ listener' = FALSE
    /\ timers' = 0
    /\ passes' = 0
    /\ children' = children
    /\ error' = "none"
    /\ pc' = "script"

\* panel.webview.html = previewHtml: a fresh document starts loading
FreshDocument ==
    /\ panel' = "open"
    /\ readyState' \in ReadyStates
    /\ dom' \in {d \in DomShapes : Nested(d)}
    /\ listener' = FALSE
    /\ timers' = 0
    /\ passes' = 0
    /\ children' = <<>>
    /\ error' = "none"
    /\ pc' = "script"

Init ==
    /\ panel = "open"
    /\ readyState \in ReadyStates
    /\ dom \in {d \in DomShapes : Nested(d)}
    /\ listener = FALSE
    /\ timers = 0
    /\ passes = 0
    /\ children = <<>>
    /\ error = "none"
    /\ pc = "script"
    /\ totalHeight = 0
    /\ numPages = 0
    /\ i = 0
    /\ indicator = NoIndicator
    /\ pageBreakMarginTop = 60
    /\ topMarIncrementer = 96
    /\ topMarIncrementCount = 0
    /\ ref = NoPass
    /\ PrintParked
    /\ CleanParked
    /\ InstallParked
    /\ CommandParked

\* printMD.print renders another preview once the previous document is quiescent
ShowPreview ==
    /\ pc = "idle"
    /\ timers = 0
    /\ ~listener \/ panel = "disposed"
    /\ FreshDocument
    /\ UNCHANGED <<passLocals, accVars, ref>>
    /\ UNCHANGED <<printVars, cleanVars, installVars, commandVars>>

\* the inline script at the end of the body
RunScript ==
    /\ pc = "script"
    /\ panel = "open"
    /\ IF StartsTimerNow(readyState)
         THEN timers' = timers + 1 /\ UNCHANGED listener
         ELSE listener' = TRUE /\ UNCHANGED timers
    /\ pc' = "idle"
    /\ UNCHANGED <<panel, readyState, passes, dom, children, error,
                   passLocals, accVars, ref>>
    /\ UNCHANGED <<printVars, cleanVars, installVars, commandVars>>

\* the parser finishes: readyState leaves 'loading', listeners run
DOMContentLoaded ==
    /\ pc = "idle"
    /\ panel = "open"
    /\ readyState = "loading"
    /\ readyState' = "interactive"
    /\ IF listener
         THEN timers' = timers + 1 /\ listener' = FALSE
         ELSE UNCHANGED <<timers, listener>>
    /\ UNCHANGED <<panel, passes, dom, children, pc, error,
                   passLocals, accVars, ref>>
    /\ UNCHANGED <<printVars, cleanVars, installVars, commandVars>>

\* panel.dispose(): the document is detached.  Whether lookups in it still
\* find the elements, and whether a pending timer still runs, is up to the host.
Dispose ==
    /\ pc = "idle"
    /\ panel = "open"
    /\ panel' = "disposed"
    /\ dom' \in {dom, Detached}
    /\ \E kept \in BOOLEAN : timers' = IF kept THEN timers ELSE 0
    /\ UNCHANGED <<readyState, listener, passes, children, pc, error,
                   passLocals, accVars, ref>>
    /\ UNCHANGED <<printVars, cleanVars, installVars, commandVars>>

----------------------------------------------------------------------------
(* addPageBreakIndicators *)

\* the timer fires: lookups, guard, measurement, accumulator initialisation
AddPageBreakIndicatorsStale ==
    /\ pc = "idle"
    /\ timers > 0
    /\ passes < MaxPasses
    /\ timers' = timers - 1
    /\ passes' = passes + 1
    /\ IF ~dom.wrapper
         THEN /\ error' = "TypeError"
              /\ pc' = "idle"
              /\ UNCHANGED <<passLocals, accVars>>
         ELSE IF ~dom.container
         THEN /\ pc' = "idle"
              /\ UNCHANGED <<error, passLocals, accVars>>
         ELSE IF ~dom.content
         THEN /\ error' = "TypeError"
              /\ pc' = "idle"
              /\ UNCHANGED <<passLocals, accVars>>
         ELSE /\ \E h \in Heights :
                    /\ totalHeight' = h
                    /\ numPages' = NumPages(h)
              /\ i' = 0
              /\ pc' = "loop"
              /\ UNCHANGED <<error, indicator, accVars>>
    /\ UNCHANGED <<panel, readyState, listener, dom, children, ref>>
    /\ UNCHANGED <<printVars, cleanVars, installVars, commandVars>>

AddPageBreakIndicatorsOver(heights) ==
    /\ pc = "idle"
    /\ timers > 0
    /\ passes < MaxPasses
    /\ timers' = timers - 1
    /\ passes' = passes + 1
    /\ IF ~dom.wrapper
         THEN \* wrapper.querySelector on null
              /\ error' = "TypeError"
              /\ pc' = "idle"
              /\ UNCHANGED <<passLocals, accVars>>
         ELSE IF ~dom.container
         THEN \* if (!container) return
              /\ pc' = "idle"
              /\ UNCHANGED <<error, passLocals, accVars>>
         ELSE IF ~dom.content
         THEN \* content.scrollHeight on null
              /\ error' = "TypeError"
              /\ pc' = "idle"
              /\ UNCHANGED <<passLocals, accVars>>
         ELSE /\ \E h \in heights :
                    /\ totalHeight' = h
                    /\ numPages' = NumPages(h)
              /\ pageBreakMarginTop' = 60
              /\ topMarIncrementer' = 96
              /\ topMarIncrementCount' = 0
              /\ i' = 0
              /\ pc' = "loop"
              /\ UNCHANGED <<error, indicator>>
    /\ UNCHANGED <<panel, readyState, listener, dom, children, ref>>
    /\ UNCHANGED <<printVars, cleanVars, installVars, commandVars>>

\* the callback in a browser: scrollHeight is never negative
AddPageBreakIndicators == AddPageBreakIndicatorsOver(Heights)

\* i < numPages: create the indicator and enter nextPageMargin up to the
\* decrement (count++, style.marginTop, pageBreakMarginTop -= ...)
LoopIteration ==
    /\ pc = "loop"
    /\ i < numPages
    /\ topMarIncrementCount' = topMarIncrementCount + 1
    /\ indicator' = [CreateIndicator(i) EXCEPT !.marginTop = Px(pageBreakMarginTop)]
    /\ pageBreakMarginTop' = Decrement(i, pageBreakMarginTop, topMarIncrementer)
    /\ pc' = "adjust"
    /\ UNCHANGED <<docVars, children, totalHeight, numPages, i,
                   topMarIncrementer, ref>>
    /\ UNCHANGED <<printVars, cleanVars, installVars, commandVars>>

\* the rest of nextPageMargin: the periodic adjustment of the heuristic
NextPageMarginAdjust ==
    /\ pc = "adjust"
    /\ IF AdjustDue(i, topMarIncrementCount)
         THEN /\ topMarIncrementCount' = 0
              /\ IF DriftLimit(pageBreakMarginTop)
                   THEN /\ pageBreakMarginTop' = 0
                        /\ topMarIncrementer' = 40
                   ELSE /\ topMarIncrementer' = topMarIncrementer - 56
                        /\ UNCHANGED pageBreakMarginTop
         ELSE UNCHANGED accVars
    /\ pc' = "append"
    /\ UNCHANGED <<docVars, children, passLocals, ref>>
    /\ UNCHANGED <<printVars, cleanVars, installVars, commandVars>>

AppendIndicatorFirst ==
    /\ pc = "append"
    /\ children' = IF ShouldAppend(i) THEN <<indicator>> \o children ELSE children
    /\ i' = i + 1
    /\ pc' = "loop"
    /\ UNCHANGED <<docVars, totalHeight, numPages, indicator, accVars, ref>>
    /\ UNCHANGED <<printVars, cleanVars, installVars, commandVars>>

\* if (i != 0) container.appendChild(indicator); i++
AppendIndicator ==
    /\ pc = "append"
    /\ children' = IF ShouldAppend(i) THEN Append(children, indicator) ELSE children
    /\ i' = i + 1
    /\ pc' = "loop"
    /\ UNCHANGED <<docVars, totalHeight, numPages, indicator, accVars, ref>>
    /\ UNCHANGED <<printVars, cleanVars, installVars, commandVars>>

\* i >= numPages: the pass returns; the observer may keep it for comparison
LoopExit ==
    /\ pc = "loop"
    /\ i >= numPages
    /\ pc' = "idle"
    /\ ref' \in {ref, [height |-> totalHeight, markers |-> children]}
    /\ UNCHANGED <<docVars, children, passLocals, accVars>>
    /\ UNCHANGED <<printVars, cleanVars, installVars, commandVars>>

Next ==
    \/ ShowPreview
    \/ RunScript
    \/ DOMContentLoaded
    \/ Dispose
    \/ AddPageBreakIndicators
    \/ LoopIteration
    \/ NextPageMarginAdjust
    \/ AppendIndicator
    \/ LoopExit

Spec == Init /\ [][Next]_vars

\* the scheduling the event loop guarantees: a runnable script, event, timer
\* callback or loop step is eventually run
FairSpec ==
    /\ Spec
    /\ WF_vars(RunScript)
    /\ WF_vars(DOMContentLoaded)
    /\ WF_vars(AddPageBreakIndicators)
    /\ WF_vars(LoopIteration)
    /\ WF_vars(NextPageMarginAdjust)
    /\ WF_vars(AppendIndicator)
    /\ WF_vars(LoopExit)

\* measured heights outside what scrollHeight can be
NegativeHeights == {-1, -pageHeight, -pageHeight - 1, -2000}

\* the estimator fed with negative heights as well
OutOfDomainNext ==
    \/ ShowPreview
    \/ RunScript
    \/ DOMContentLoaded
    \/ Dispose
    \/ AddPageBreakIndicatorsOver(Heights \cup NegativeHeights)
    \/ LoopIteration
    \/ NextPageMarginAdjust
    \/ AppendIndicator
    \/ LoopExit

OutOfDomainSpec == Init /\ [][OutOfDomainNext]_vars

----------------------------------------------------------------------------
(* The preview's 'print' message handler *)

MaxPrints == 3           \* processes spawned in one run of the model

\* the estimator before any preview document exists
EstimatorParked ==
    /\ panel = "disposed"
    /\ readyState = "complete"
    /\ listener = FALSE
    /\ timers = 0
    /\ passes = 0
    /\ dom = Detached
    /\ children = <<>>
    /\ pc = "idle"
    /\ error = "none"
    /\ totalHeight = 0
    /\ numPages = 0
    /\ i = 0
    /\ indicator = NoIndicator
    /\ pageBreakMarginTop = 60
    /\ topMarIncrementer = 96
    /\ topMarIncrementCount = 0
    /\ ref = NoPass

\* printer names, as sequences of characters
PrinterHP == <<"H", "P">>
PrinterPD == <<"P", "D">>
PrinterPDF == <<"P", "D", "F">>
PrinterMyPdf == <<"m", "y", "P", "d", "f", "1">>
Printers == {PrinterHP, PrinterPD, PrinterPDF, PrinterMyPdf}

\* values of printer.select
SelectModes == {"default", "last-used", "save-pdf"}

\* fsPath of the save dialog's result; "" when the dialog was dismissed
SaveUris == {"report.pdf", "copy.pdf"}
NoUri == ""

\* String.prototype.toLowerCase, on the letters printer names use
UpperCase == <<"A", "B", "C", "D", "E", "F", "G", "H", "I", "J", "K", "L", "M",
               "N", "O", "P", "Q", "R", "S", "T", "U", "V", "W", "X", "Y", "Z">>
LowerCase == <<"a", "b", "c", "d", "e", "f", "g", "h", "i", "j", "k", "l", "m",
               "n", "o", "p", "q", "r", "s", "t", "u", "v", "w", "x", "y", "z">>
ToLowerCase(str) ==
    [k \in DOMAIN str |->
        IF \E n \in DOMAIN UpperCase : UpperCase[n] = str[k]
          THEN LowerCase[CHOOSE n \in DOMAIN UpperCase : UpperCase[n] = str[k]]
          ELSE str[k]]

\* String.prototype.includes
Includes(str, sub) ==
    \E k \in 0..(Len(str) - Len(sub)) : SubSeq(str, k + 1, k + Len(sub)) = sub

\* const pdfPrinterNames
pdfPrinterNames ==
    << <<"a", "d", "o", "b", "e", " ", "p", "d", "f">>,
       <<"m", "i", "c", "r", "o", "s", "o", "f", "t", " ", "p", "r", "i", "n", "t",
         " ", "t", "o", " ", "p", "d", "f">>,
       <<"p", "d", "f">>,
       <<"p", "r", "i", "n", "t", " ", "t", "o", " ", "p", "d", "f">> >>

\* the same test without toLowerCase
isPdfPrinterCaseSensitive(printerName) ==
    \E n \in DOMAIN pdfPrinterNames : Includes(printerName, pdfPrinterNames[n])

\* pdfPrinterNames.some(name => printerName.toLowerCase().includes(name))
isPdfPrinter(printerName) ==
    \E n \in DOMAIN pdfPrinterNames :
        Includes(ToLowerCase(printerName), pdfPrinterNames[n])

\* truthiness of a string | undefined | null
Truthy(v) == v # Undefined /\ v # <<>>

\* printerToUse as the handler determines it
PrinterToUseNoMemory(sel, mode, last) == IF Truthy(sel) THEN sel ELSE Undefined
PrinterToUse(sel, mode, last) ==
    IF Truthy(sel) THEN sel
    ELSE IF mode = "last-used" /\ Truthy(last) THEN last
    ELSE Undefined

\* if (printerSelectMode === 'last-used') inside if (selectedPrinter)
Remembers(sel, mode) == Truthy(sel) /\ mode = "last-used"

\* const isPdfMode
IsPdfModePrinterOnly(mode, toUse) == Truthy(toUse) /\ isPdfPrinter(toUse)
IsPdfMode(mode, toUse) ==
    mode = "save-pdf" \/ (Truthy(toUse) /\ isPdfPrinter(toUse))

\* python printMD.py --html htmlPath --pdf pdfPath [--printer printerToUse]
PrintCommand(toUse) ==
    [html |-> "htmlPath", pdf |-> "pdfPath",
     printer |-> IF Truthy(toUse) THEN toUse ELSE Undefined]

\* python printMD.py --html htmlPath --pdf saveUri.fsPath
SaveCommand(fsPath) == [html |-> "htmlPath", pdf |-> fsPath, printer |-> Undefined]

notPrint == <<estimatorVars, cleanVars, installVars, commandVars>>

PrintInit ==
    /\ printerSelectMode \in SelectModes
    /\ globalState \in Printers \cup {Undefined}
    /\ lastUsedPrinter = globalState
    /\ selectedPrinter = Undefined
    /\ session = "open"
    /\ hpc = "ready"
    /\ printerToUse = Undefined
    /\ lastSpawn = NoCommand
    /\ spawnCount = 0
    /\ running = 0
    /\ EstimatorParked
    /\ CleanParked
    /\ InstallParked
    /\ CommandParked

\* the user edits the setting
ChangeSetting ==
    /\ hpc = "ready"
    /\ \E mode \in SelectModes \ {printerSelectMode} : printerSelectMode' = mode
    /\ UNCHANGED <<lastUsedPrinter, globalState, selectedPrinter, session, hpc,
                   printerToUse, lastSpawn, spawnCount, running>>
    /\ UNCHANGED notPrint

\* selectPrinter(printerName) in the preview
SelectPrinter ==
    /\ session = "open"
    /\ hpc = "ready"
    /\ \E name \in Printers \ {selectedPrinter} : selectedPrinter' = name
    /\ UNCHANGED <<printerSelectMode, lastUsedPrinter, globalState, session, hpc,
                   printerToUse, lastSpawn, spawnCount, running>>
    /\ UNCHANGED notPrint

\* message.command === 'print', up to the save dialog or the spawn
PrintMessage ==
    /\ session = "open"
    /\ hpc = "ready"
    /\ spawnCount < MaxPrints
    /\ LET toUse == PrinterToUse(selectedPrinter, printerSelectMode, lastUsedPrinter)
       IN  /\ printerToUse' = toUse
           /\ IF Remembers(selectedPrinter, printerSelectMode)
                THEN /\ lastUsedPrinter' = selectedPrinter
                     /\ globalState' = selectedPrinter
                ELSE UNCHANGED <<lastUsedPrinter, globalState>>
           /\ IF IsPdfMode(printerSelectMode, toUse)
                THEN /\ hpc' = "dialog"
                     /\ UNCHANGED <<lastSpawn, spawnCount, running>>
                ELSE /\ lastSpawn' = PrintCommand(toUse)
                     /\ spawnCount' = spawnCount + 1
                     /\ running' = running + 1
                     /\ UNCHANGED hpc
    /\ UNCHANGED <<printerSelectMode, selectedPrinter, session>>
    /\ UNCHANGED notPrint

\* showSaveDialog resolves: dismissed, or the conversion to the chosen path
SaveDialogResult ==
    /\ hpc = "dialog"
    /\ hpc' = "ready"
    /\ \E fsPath \in SaveUris \cup {NoUri} :
          IF fsPath = NoUri
            THEN UNCHANGED <<lastSpawn, spawnCount, running>>
            ELSE /\ lastSpawn' = SaveCommand(fsPath)
                 /\ spawnCount' = spawnCount + 1
                 /\ running' = running + 1
    /\ UNCHANGED <<printerSelectMode, lastUsedPrinter, globalState, selectedPrinter,
                   session, printerToUse>>
    /\ UNCHANGED notPrint

\* pyProc.on('close'): panel.dispose()
ProcessClose ==
    /\ running > 0
    /\ running' = running - 1
    /\ session' = "closed"
    /\ UNCHANGED <<printerSelectMode, lastUsedPrinter, globalState, selectedPrinter,
                   hpc, printerToUse, lastSpawn, spawnCount>>
    /\ UNCHANGED notPrint

\* printMD.print: a new preview, whose script starts with selectedPrinter = null
NewPreview ==
    /\ session = "closed"
    /\ hpc = "ready"
    /\ session' = "open"
    /\ selectedPrinter' = Undefined
    /\ UNCHANGED <<printerSelectMode, lastUsedPrinter, globalState, hpc,
                   printerToUse, lastSpawn, spawnCount, running>>
    /\ UNCHANGED notPrint

\* activate in a new extension session: lastUsedPrinter is read from globalState
Activate ==
    /\ session = "closed"
    /\ hpc = "ready"
    /\ running = 0
    /\ lastUsedPrinter' = globalState
    /\ UNCHANGED <<printerSelectMode, globalState, selectedPrinter, session, hpc,
                   printerToUse, lastSpawn, spawnCount, running>>
    /\ UNCHANGED notPrint

PrintNext ==
    \/ ChangeSetting
    \/ SelectPrinter
    \/ PrintMessage
    \/ SaveDialogResult
    \/ ProcessClose
    \/ NewPreview
    \/ Activate

PrintSpec == PrintInit /\ [][PrintNext]_vars

----------------------------------------------------------------------------
(* cleanTempPrintFolder *)

\* 20 * 60 * 1000
TwentyMinutes == 20 * 60 * 1000

\* Date.now() when cleanTempPrintFolder is called
StartTime == 3 * TwentyMinutes

\* how late after its 20 minutes the timer callback may run, in ms
MaxLate == 1

\* os.tmpdir()
TempDir == <<"/", "t", "m", "p">>

\* names of entries of the temp directory
NameA == <<"p", "r", "i", "n", "t", "m", "d", "_", "a">>
NameBare == <<"p", "r", "i", "n", "t", "m", "d", "_">>
NameShort == <<"p", "r", "i", "n", "t", "m", "d">>
NameInner == <<"x", "p", "r", "i", "n", "t", "m", "d", "_", "a">>
EntryNames == {NameA, NameBare, NameShort, NameInner}

\* path.join(tempDir, entry)
PathJoin(dir, name) == dir \o <<"/">> \o name

\* what an entry can be when cleanTempPrintFolder is called: a file, or a
\* folder last modified long ago, at the call, or ten minutes after it
EntryKinds ==
    {[kind |-> "file", mtime |-> StartTime - 5 * TwentyMinutes],
     [kind |-> "dir", mtime |-> StartTime - 5 * TwentyMinutes],
     [kind |-> "dir", mtime |-> StartTime],
     [kind |-> "dir", mtime |-> StartTime + 10 * 60 * 1000]}

\* contents of the temp directory
TempContents ==
    UNION {[present -> EntryKinds] : present \in SUBSET EntryNames}

\* values of the argument currentFolder
CurrentFolders ==
    {PathJoin(TempDir, name) : name \in EntryNames}
        \cup {PathJoin(TempDir, NameA) \o <<"/">>, <<"/", "o">>}

\* entry.startsWith('printmd_')
StartsWith(str, prefix) ==
    Len(str) >= Len(prefix) /\ SubSeq(str, 1, Len(prefix)) = prefix

\* the filter: printmd_* entries that are directories
PrintmdFolders(entries) ==
    {name \in DOMAIN entries :
        StartsWith(name, NameBare) /\ entries[name].kind = "dir"}

\* if (folderPath === currentFolder) return
IsCurrentFolderByName(folderName, cur) == folderName = cur
IsCurrentFolder(folderName, cur) == PathJoin(TempDir, folderName) = cur

\* if (folderTime < twentyMinutesAgo)
IsOldInclusive(folderTime, current) == folderTime <= current - TwentyMinutes
IsOld(folderTime, current) == folderTime < current - TwentyMinutes

\* the folders the pass calls fs.rmSync on
ToRemove(entries, cur, current) ==
    {name \in PrintmdFolders(entries) :
        /\ ~IsCurrentFolder(name, cur)
        /\ IsOld(entries[name].mtime, current)}

notClean == <<estimatorVars, printVars, installVars, commandVars>>

CleanInit ==
    /\ tempEntries \in TempContents
    /\ currentFolder = <<>>
    /\ clock = StartTime
    /\ cleanTimer = FALSE
    /\ deleted = {}
    /\ rmFailed = {}
    /\ EstimatorParked
    /\ PrintParked
    /\ InstallParked
    /\ CommandParked

\* cleanTempPrintFolder(currentFolder): setTimeout(..., 20 * 60 * 1000)
CleanTempPrintFolder ==
    /\ ~cleanTimer
    /\ clock = StartTime
    /\ \E cur \in CurrentFolders : currentFolder' = cur
    /\ cleanTimer' = TRUE
    /\ UNCHANGED <<tempEntries, clock, deleted, rmFailed>>
    /\ UNCHANGED notClean

\* the timer callback, 20 minutes later: the whole clean-up pass
CleanPass ==
    /\ cleanTimer
    /\ cleanTimer' = FALSE
    /\ \E late \in 0..MaxLate : clock' = clock + TwentyMinutes + late
    /\ \E failing \in SUBSET ToRemove(tempEntries, currentFolder, clock') :
          /\ rmFailed' = failing
          /\ deleted' = ToRemove(tempEntries, currentFolder, clock') \ failing
    /\ tempEntries' = [name \in DOMAIN tempEntries \ deleted' |-> tempEntries[name]]
    /\ UNCHANGED currentFolder
    /\ UNCHANGED notClean

CleanNext ==
    \/ CleanTempPrintFolder
    \/ CleanPass

CleanSpec == CleanInit /\ [][CleanNext]_vars

----------------------------------------------------------------------------
(* scripts/install-python-deps.js *)

\* os.platform()
Platforms == {"win32", "darwin", "linux", "freebsd"}

FlagUser == "--user"
FlagNone == ""
FlagBreak == "--break-system-packages"

\* the flags of the three pip invocations
PipFlags == {FlagUser, FlagNone, FlagBreak}

corePackages == <<"markdown", "weasyprint", "pygments">>
windowsPackages == <<"pywin32">>

isWindows == platform = "win32"

\* `${pythonCmd} -m pip install <flag> --quiet ${packages.join(' ')}`
PipCommand(cmd, flag, pkgs) == [python |-> cmd, flag |-> flag, packages |-> pkgs]

notInstall == <<estimatorVars, printVars, cleanVars, commandVars>>

InstallInit ==
    /\ platform \in Platforms
    /\ pipOk \in SUBSET PipFlags
    /\ pythonOk \in BOOLEAN
    /\ pythonCmd = "python3"
    /\ packages = <<>>
    /\ ipc = "start"
    /\ tried = <<>>
    /\ printed = "none"
    /\ exitCode = -1
    /\ EstimatorParked
    /\ PrintParked
    /\ CleanParked
    /\ CommandParked

\* let pythonCmd = 'python3'; on Windows try `python --version`
DetectPython ==
    /\ ipc = "start"
    /\ pythonCmd' = IF isWindows /\ pythonOk THEN "python" ELSE "python3"
    /\ ipc' = "build"
    /\ UNCHANGED <<platform, pipOk, pythonOk, packages, tried, printed, exitCode>>
    /\ UNCHANGED notInstall

\* let packages = [...corePackages]; plus windowsPackages on Windows
BuildPackages ==
    /\ ipc = "build"
    /\ packages' = IF isWindows THEN corePackages \o windowsPackages ELSE corePackages
    /\ ipc' = IF isWindows THEN "windows" ELSE "user"
    /\ UNCHANGED <<platform, pipOk, pythonOk, pythonCmd, tried, printed, exitCode>>
    /\ UNCHANGED notInstall

\* one execSync of pip outside Windows: process.exit(0) when it succeeds,
\* the next catch block when it throws
Attempt(flag, onError) ==
    /\ tried' = Append(tried, PipCommand(pythonCmd, flag, packages))
    /\ IF flag \in pipOk
          THEN /\ printed' = "success"
               /\ exitCode' = 0
               /\ ipc' = "exited"
          ELSE /\ ipc' = onError
               /\ UNCHANGED <<printed, exitCode>>
    /\ UNCHANGED <<platform, pipOk, pythonOk, pythonCmd, packages>>
    /\ UNCHANGED notInstall

\* the strategies in another order: --break-system-packages first
TryUserBreakFirst == ipc = "user" /\ Attempt(FlagBreak, "plain")

\* Strategy 1: --user
TryUser == ipc = "user" /\ Attempt(FlagUser, "plain")

\* Strategy 2: without --user
TryPlain == ipc = "plain" /\ Attempt(FlagNone, "break")

\* Strategy 3: --break-system-packages
TryBreak == ipc = "break" /\ Attempt(FlagBreak, "failed")

\* all strategies failed: manual instructions, process.exit(0)
AllFailed ==
    /\ ipc = "failed"
    /\ printed' = "manual"
    /\ exitCode' = 0
    /\ ipc' = "exited"
    /\ UNCHANGED <<platform, pipOk, pythonOk, pythonCmd, packages, tried>>
    /\ UNCHANGED notInstall

\* Windows: one standard installation, inside the outer try
WindowsInstall ==
    /\ ipc = "windows"
    /\ tried' = Append(tried, PipCommand(pythonCmd, FlagNone, packages))
    /\ IF FlagNone \in pipOk
          THEN printed' = "success" /\ ipc' = "end"
          ELSE printed' = printed /\ ipc' = "catch"
    /\ UNCHANGED <<platform, pipOk, pythonOk, pythonCmd, packages, exitCode>>
    /\ UNCHANGED notInstall

\* the script runs off its end: node exits with status 0
EndOfScript ==
    /\ ipc = "end"
    /\ exitCode' = 0
    /\ ipc' = "exited"
    /\ UNCHANGED <<platform, pipOk, pythonOk, pythonCmd, packages, tried, printed>>
    /\ UNCHANGED notInstall

\* an error escaping the outer try without a handler: node exits with 1
CatchAllUncaught ==
    /\ ipc = "catch"
    /\ exitCode' = 1
    /\ ipc' = "exited"
    /\ UNCHANGED <<platform, pipOk, pythonOk, pythonCmd, packages, tried, printed>>
    /\ UNCHANGED notInstall

\* catch (error): warning, process.exit(0)
CatchAll ==
    /\ ipc = "catch"
    /\ printed' = "warning"
    /\ exitCode' = 0
    /\ ipc' = "exited"
    /\ UNCHANGED <<platform, pipOk, pythonOk, pythonCmd, packages, tried>>
    /\ UNCHANGED notInstall

InstallNext ==
    \/ DetectPython
    \/ BuildPackages
    \/ TryUser
    \/ TryPlain
    \/ TryBreak
    \/ AllFailed
    \/ WindowsInstall
    \/ EndOfScript
    \/ CatchAll

InstallSpec == InstallInit /\ [][InstallNext]_vars

\* node runs the script to its end: a step that can be taken is taken
InstallFairSpec == InstallSpec /\ WF_vars(InstallNext)

----------------------------------------------------------------------------
(* The printMD.print command: temp files, preview panel, spawned processes *)

MaxSessions == 2         \* previews created by printMD.print
MaxProcs == 2            \* processes spawned by 'print' messages
MaxTicks == 2            \* advances of the clock

\* setTimeout(..., 5000) of the close handler
CleanupDelay == 5000

\* the clock advances by a millisecond or by just less than the clean-up delay
Delays == {1, CleanupDelay - 1}

\* advances of the clock so far
TicksTaken == (now \div (CleanupDelay - 1)) + (now % (CleanupDelay - 1))

\* vscode.window.activeTextEditor, visibleTextEditors and
\* vscode.workspace.textDocuments, by languageId
TextFile == [languageId |-> "plaintext", isUntitled |-> FALSE]
MarkdownFile == [languageId |-> "markdown", isUntitled |-> FALSE]
MarkdownUntitled == [languageId |-> "markdown", isUntitled |-> TRUE]

Workbenches ==
    {[active |-> "none", visible |-> <<>>, documents |-> {}],
     [active |-> "plaintext", visible |-> <<"plaintext">>,
      documents |-> {TextFile, MarkdownUntitled}],
     [active |-> "markdown", visible |-> <<"markdown">>,
      documents |-> {MarkdownUntitled}],
     [active |-> "plaintext", visible |-> <<"plaintext", "markdown">>,
      documents |-> {TextFile, MarkdownUntitled}],
     [active |-> "none", visible |-> <<>>, documents |-> {TextFile, MarkdownFile}]}

\* results of markdown.api.render
RenderResults == {"", "<p>doc</p>"}

\* exit codes of the spawned process
ExitCodes == {0, 1}

\* where the command finds mdDocument, or "none"
FindDocument(wb) ==
    IF wb.active = "markdown" THEN "active"
    ELSE IF \E k \in 1..Len(wb.visible) : wb.visible[k] = "markdown" THEN "visible"
    ELSE IF \E doc \in wb.documents : doc.languageId = "markdown" /\ ~doc.isUntitled
         THEN "open"
    ELSE "none"

\* the two early returns: if (!mdDocument) return; if (!html) return
ProceedsUnrendered(found, html) == found # "none"
Proceeds(found, html) == found # "none" /\ html # ""

\* path.join(tempDir, `print-preview-${timestamp}.html`)
HtmlPath(timestamp) == "/gs/print-preview-" \o ToString(timestamp) \o ".html"

\* path.join(tempDir, `print-output-${timestamp}.pdf`)
PdfPath(timestamp) == "/gs/print-output-" \o ToString(timestamp) \o ".pdf"

NoMarkdownMessage == "No markdown file found to print. Please open a markdown file."
RenderFailedMessage == "Failed to render markdown content."
CompletedMessage == "Print job completed for doc.md"
FailedMessage(code, errorOutput) ==
    "Printing failed (exit code " \o ToString(code) \o ")\n" \o errorOutput

notCommand == <<estimatorVars, printVars, cleanVars, installVars>>

CommandInit ==
    /\ CommandParked
    /\ EstimatorParked
    /\ PrintParked
    /\ CleanParked
    /\ InstallParked

\* the command handler of printMD.print
\* wb: the editors and documents it finds; html: what markdown.api.render returns
PrintMD(wb, html) ==
    /\ IF Proceeds(FindDocument(wb), html)
          THEN /\ Len(sessions) < MaxSessions
               /\ sessions' = Append(sessions,
                                 [timestamp |-> now,
                                  htmlPath |-> HtmlPath(now),
                                  pdfPath |-> PdfPath(now),
                                  panel |-> "open"])
               /\ files' = files \cup {HtmlPath(now)}
               /\ shown' = "Rendering doc.md..."
          ELSE /\ shown' = IF FindDocument(wb) = "none"
                              THEN NoMarkdownMessage
                              ELSE RenderFailedMessage
               /\ UNCHANGED <<sessions, files>>
    /\ UNCHANGED <<now, procs, cmdTimers>>
    /\ UNCHANGED notCommand

\* message 'print' from the preview of session s: spawn printMD.py
OnPrint(s) ==
    /\ sessions[s].panel = "open"
    /\ Len(procs) < MaxProcs
    /\ procs' = Append(procs,
                   [session |-> s,
                    html |-> sessions[s].htmlPath,
                    pdf |-> sessions[s].pdfPath,
                    state |-> "running",
                    errorOutput |-> "",
                    code |-> -1])
    /\ shown' = "Printing doc.md..."
    /\ UNCHANGED <<now, sessions, files, cmdTimers>>
    /\ UNCHANGED notCommand

\* the spawned process converts --html to the file named by --pdf
PythonWritesPdf(p) ==
    /\ procs[p].state = "running"
    /\ procs[p].html \in files
    /\ procs[p].pdf \notin files
    /\ files' = files \cup {procs[p].pdf}
    /\ UNCHANGED <<now, sessions, procs, cmdTimers, shown>>
    /\ UNCHANGED notCommand

\* pyProc.stderr.on('data'): errorOutput += data.toString()
OnStderr(p) ==
    /\ procs[p].state = "running"
    /\ procs[p].errorOutput = ""
    /\ procs' = [procs EXCEPT ![p].errorOutput = @ \o "boom"]
    /\ UNCHANGED <<now, sessions, files, cmdTimers, shown>>
    /\ UNCHANGED notCommand

\* the clean-up timeout a close handler registers
CloseTimerEarly(p) == [proc |-> p, due |-> now + 1000]
CloseTimer(p) == [proc |-> p, due |-> now + CleanupDelay]

\* the message the close handler shows
CloseMessage(code, errorOutput) ==
    IF code = 0 THEN CompletedMessage ELSE FailedMessage(code, errorOutput)

\* pyProc.on('close', code)
OnClose(p) ==
    /\ procs[p].state = "running"
    /\ \E code \in ExitCodes :
          /\ procs' = [procs EXCEPT ![p].state = "closed", ![p].code = code]
          /\ shown' = CloseMessage(code, procs[p].errorOutput)
    /\ sessions' = [sessions EXCEPT ![procs[p].session].panel = "disposed"]
    /\ cmdTimers' = cmdTimers \cup {CloseTimer(p)}
    /\ UNCHANGED <<now, files>>
    /\ UNCHANGED notCommand

\* the timeout callback of the close handler of process t.proc
CleanupTimeout(t) ==
    /\ now >= t.due
    /\ files' = files \ {procs[t.proc].html, procs[t.proc].pdf}
    /\ cmdTimers' = cmdTimers \ {t}
    /\ UNCHANGED <<now, sessions, procs, shown>>
    /\ UNCHANGED notCommand

\* what the 'cancel' handler unlinks
CancelRemovesHtmlOnly(s) == {sessions[s].htmlPath}
CancelRemoves(s) == {sessions[s].htmlPath, sessions[s].pdfPath}

\* message 'cancel' from the preview of session s
OnCancel(s) ==
    /\ sessions[s].panel = "open"
    /\ sessions' = [sessions EXCEPT ![s].panel = "disposed"]
    /\ files' = files \ CancelRemoves(s)
    /\ shown' = "Print cancelled."
    /\ UNCHANGED <<now, procs, cmdTimers>>
    /\ UNCHANGED notCommand

\* time passes; a pending timeout fires when it is due
Tick ==
    /\ TicksTaken < MaxTicks
    /\ \E d \in Delays :
          /\ \A t \in cmdTimers : now + d <= t.due
          /\ now' = now + d
    /\ UNCHANGED <<sessions, files, procs, cmdTimers, shown>>
    /\ UNCHANGED notCommand

CommandNext ==
    \/ \E wb \in Workbenches, html \in RenderResults : PrintMD(wb, html)
    \/ \E s \in 1..Len(sessions) : OnPrint(s)
    \/ \E p \in 1..Len(procs) : PythonWritesPdf(p)
    \/ \E p \in 1..Len(procs) : OnStderr(p)
    \/ \E p \in 1..Len(procs) : OnClose(p)
    \/ \E t \in cmdTimers : CleanupTimeout(t)
    \/ \E s \in 1..Len(sessions) : OnCancel(s)
    \/ Tick

CommandSpec == CommandInit /\ [][CommandNext]_vars

----------------------------------------------------------------------------
(* Properties *)

InPass == pc \in {"loop", "adjust", "append"}

\* a pass that measured the content has run its loop to the end
PassFinished ==
    \/ pc = "loop" /\ i >= numPages
    \/ pc = "idle" /\ passes > 0 /\ dom.content /\ error = "none"

\* the indicators that exist: appended ones and the one being built
Emitted == {children[k] : k \in DOMAIN children}
Built == IF pc \in {"adjust", "append"} THEN {indicator} ELSE {}

\* C1: a finished pass over totalHeight >= 0 has numPages = ceil(totalHeight / 912)
\* and has appended exactly max(numPages - 1, 0) indicators, one for each index
\* 1..numPages-1 and none for index 0 (2000 px: 3 pages, 2 indicators; 0 px: none).
C1_PageCount ==
    PassFinished =>
        /\ totalHeight >= 0
        /\ numPages * 912 >= totalHeight
        /\ (numPages - 1) * 912 < totalHeight
        /\ Len(children) = (IF numPages >= 1 THEN numPages - 1 ELSE 0)
        /\ {c.dataPage : c \in Emitted} = {ToString(k) : k \in 1..(numPages - 1)}
        /\ (totalHeight = 2000 => numPages = 3 /\ Len(children) = 2)
        /\ (totalHeight = 0 => numPages = 0 /\ Len(children) = 0)

C1_Witness ==
    /\ pc = "idle"
    /\ PassFinished
    /\ totalHeight = 2000
    /\ numPages = 3
    /\ Len(children) = 2

\* C2: every change of the container within a pass appends exactly one indicator
\* at the end, and the k-th appended indicator has index k: ascending from 1,
\* no gap, no duplicate, no index 0.
C2_AscendingAppend ==
    [][(InPass /\ children' # children) =>
          /\ Len(children') = Len(children) + 1
          /\ SubSeq(children', 1, Len(children)) = children
          /\ children'[Len(children')].dataPage = ToString(Len(children'))
          /\ Len(children') = i]_vars

C2_Witness ==
    /\ pc = "loop"
    /\ Len(children) = 3
    /\ children[1].dataPage = "1"
    /\ children[2].dataPage = "2"
    /\ children[3].dataPage = "3"

\* C3: every indicator of index idx, appended or being built, has top offset
\* idx * 912 px, where 912 = (11in - 0.75in - 0.75in) * 96, whatever the
\* drift-correction state; the corrective margin is a separate property.
C3_TopOffset ==
    /\ pageHeight = 912
    /\ ((1100 - 75 - 75) * 96) \div 100 = 912
    /\ \A c \in Emitted \cup Built :
          \E idx \in 0..MaxPages :
              /\ c.dataPage = ToString(idx)
              /\ c.top = Px(idx * 912)

C3_Witness ==
    /\ Len(children) >= 5
    /\ children[5].dataPage = "5"
    /\ children[5].top = "4560px"
    /\ children[5].marginTop = "0px"

ExpectedMarginTop == <<60, 60, -36, -132, -228, 0, -40>>

\* C4: the element of index idx gets as marginTop the value pageBreakMarginTop
\* held when iteration idx started, before that iteration's decrement; from
\* {60, 96, 0} the values for indices 0..6 are 60, 60, -36, -132, -228, 0, -40,
\* and the element of index 0 is never appended.
C4_MarginTopSequence ==
    /\ [](/\ \A c \in Emitted \cup Built :
                \A idx \in 0..6 :
                    c.dataPage = ToString(idx) =>
                        c.marginTop = Px(ExpectedMarginTop[idx + 1])
          /\ \A c \in Emitted : c.dataPage # "0")
    /\ [][(pc = "loop" /\ pc' = "adjust") =>
              /\ indicator'.dataPage = ToString(i)
              /\ indicator'.marginTop = Px(pageBreakMarginTop)]_vars

C4_Witness ==
    /\ Len(children) = 6
    /\ children[1].marginTop = "60px"
    /\ children[4].marginTop = "-228px"
    /\ children[5].marginTop = "0px"
    /\ children[6].marginTop = "-40px"

\* C5: in the adjustment step of an iteration with i >= 2 whose count has just
\* reached 5, the count is reset to 0 and the incrementer decreased by 56; if the
\* decremented pageBreakMarginTop is <= -240 the step ends with
\* pageBreakMarginTop = 0 and incrementer 40, otherwise pageBreakMarginTop stays
\* as decremented.  No other step of a pass resets the count or changes the
\* incrementer.
C5_AdjustStep ==
    [][/\ (pc = "adjust" /\ i >= 2 /\ topMarIncrementCount >= 5) =>
              /\ topMarIncrementCount = 5
              /\ topMarIncrementCount' = 0
              /\ IF pageBreakMarginTop <= -240
                   THEN pageBreakMarginTop' = 0 /\ topMarIncrementer' = 40
                   ELSE /\ pageBreakMarginTop' = pageBreakMarginTop
                        /\ topMarIncrementer' = topMarIncrementer - 56
       /\ (pc = "adjust" /\ ~(i >= 2 /\ topMarIncrementCount >= 5)) =>
              /\ topMarIncrementCount' = topMarIncrementCount
              /\ topMarIncrementer' = topMarIncrementer
              /\ pageBreakMarginTop' = pageBreakMarginTop
       /\ (pc \in {"loop", "append"}) =>
              /\ topMarIncrementCount' >= topMarIncrementCount
              /\ topMarIncrementer' = topMarIncrementer]_vars

C5_Witness ==
    /\ pc = "append"
    /\ i = 9
    /\ topMarIncrementCount = 0
    /\ topMarIncrementer = -16
    /\ pageBreakMarginTop = -200

\* corrective margins a pass of up to MaxPages pages can emit, from -228 up
MarginValues == {Px(v) : v \in -228..(60 + 40 * MaxPages * MaxPages)}

\* C6: whatever the number of pages, pageBreakMarginTop never goes below -324
\* at any point of a pass and no indicator gets a marginTop below -228.
C6_BoundedDrift ==
    /\ pageBreakMarginTop >= -324
    /\ \A c \in Emitted \cup Built : c.marginTop \in MarginValues

C6_Witness ==
    /\ pc = "loop"
    /\ i = numPages
    /\ numPages = MaxPages
    /\ \E k \in DOMAIN children : children[k].marginTop = "-228px"

\* C7: when .page-container, or the .content element inside it, is absent at
\* estimation time, the pass raises no error and inserts no indicator.
C7_MissingContainerSilent ==
    (pc = "idle" /\ passes > 0 /\ panel = "open" /\ dom.wrapper
        /\ (~dom.container \/ ~dom.content)) =>
        /\ error = "none"
        /\ children = <<>>

\* C8: a callback that fires after the panel was disposed raises no exception
\* and inserts no indicator.
C8_DisposedNoOp ==
    [][(panel = "disposed" /\ passes' = passes + 1) =>
          /\ error' = "none"
          /\ pc' = "idle"
          /\ children' = children]_vars

C10_Deterministic ==
    /\ (pc = "loop" /\ i = 0) =>
          /\ pageBreakMarginTop = 60
          /\ topMarIncrementer = 96
          /\ topMarIncrementCount = 0
    /\ (pc = "loop" /\ i >= numPages /\ ref # NoPass /\ ref.height = totalHeight) =>
          children = ref.markers

C10_Witness ==
    /\ pc = "loop"
    /\ i >= numPages
    /\ numPages = 7
    /\ ref.height = totalHeight
    /\ children = ref.markers
    /\ Len(children) = 6

C12_FrameOfPass ==
    /\ [](pageHeight = 912)
    /\ [][InPass =>
             /\ totalHeight' = totalHeight
             /\ numPages' = numPages
             /\ Len(children') >= Len(children)
             /\ \A k \in DOMAIN children : children'[k] = children[k]]_vars

C12_Witness ==
    /\ pc = "loop"
    /\ i = numPages
    /\ totalHeight = 3 * 912 + 1
    /\ Len(children) = 3
    /\ children[1].marginTop = "60px"

\* C13: the indicator built or appended for loop index idx carries data-page
\* idx and --page-number idx + 1, next to its top offset and its marginTop.
C13_PageAttributes ==
    /\ pc \in {"adjust", "append"} =>
          /\ indicator.dataPage = ToString(i)
          /\ indicator.pageNumber = ToString(i + 1)
    /\ \A k \in DOMAIN children :
          /\ children[k].dataPage = ToString(k)
          /\ children[k].pageNumber = ToString(k + 1)
          /\ children[k].top = Px(k * 912)
          /\ children[k].marginTop # ""

C13_Witness ==
    /\ Len(children) >= 9
    /\ children[9].dataPage = "9"
    /\ children[9].pageNumber = "10"
    /\ children[9].top = "8208px"
    /\ children[9].marginTop = "-160px"

\* C14 as claimed: when the count-reset check is evaluated for index 2 the
\* count is 2, and the check does not trigger.
C14_CountTwoAtIndexTwo ==
    (pc = "adjust" /\ i = 2) =>
        /\ topMarIncrementCount = 2
        /\ topMarIncrementCount < 5

\* C14 amended: when the count-reset check is evaluated for index 2 the count
\* is 3 (it was incremented for indices 0, 1 and 2), and the check does not
\* trigger: the count is below 5 and the accumulator is left at
\* pageBreakMarginTop = -132, incrementer 96, count 3.
C14_CountThreeAtIndexTwo ==
    /\ (pc = "adjust" /\ i = 2) =>
          /\ topMarIncrementCount = 3
          /\ topMarIncrementCount < 5
    /\ (pc = "append" /\ i = 2) =>
          /\ topMarIncrementCount = 3
          /\ topMarIncrementer = 96
          /\ pageBreakMarginTop = -132

C14_Witness ==
    /\ pc = "append"
    /\ i = 2
    /\ topMarIncrementCount = 3
    /\ indicator.marginTop = "-36px"

\* a 'print' message is handled: the handler reaches the dialog or spawns
PrintStep ==
    /\ session = "open"
    /\ hpc = "ready"
    /\ (hpc' = "dialog" \/ spawnCount' = spawnCount + 1)

\* C15: with printer.select = 'default' the command spawned for a 'print'
\* message carries no --printer argument, whether or not a printer was
\* selected in the preview.
C15_DefaultNoPrinterArg ==
    [][(printerSelectMode = "default" /\ hpc = "ready"
            /\ spawnCount' = spawnCount + 1) =>
          lastSpawn'.printer = Undefined]_vars

\* C16: with printer.select = 'last-used', the printer selected at a print
\* request is stored in lastUsedPrinter and in globalState; a request without a
\* selection uses the stored printer; the stored value changes only to the
\* printer selected at such a request, and memory and globalState agree.
C16_LastUsedRemembered ==
    /\ [](lastUsedPrinter = globalState)
    /\ [][/\ (PrintStep /\ printerSelectMode = "last-used"
                  /\ Truthy(selectedPrinter)) =>
                 /\ lastUsedPrinter' = selectedPrinter
                 /\ globalState' = selectedPrinter
                 /\ printerToUse' = selectedPrinter
          /\ (PrintStep /\ printerSelectMode = "last-used"
                  /\ ~Truthy(selectedPrinter) /\ Truthy(lastUsedPrinter)) =>
                 /\ printerToUse' = lastUsedPrinter
                 /\ lastUsedPrinter' = lastUsedPrinter
                 /\ (hpc' = "dialog" \/ lastSpawn'.printer = lastUsedPrinter)
          /\ (lastUsedPrinter' # lastUsedPrinter) =>
                 /\ PrintStep
                 /\ printerSelectMode = "last-used"
                 /\ lastUsedPrinter' = selectedPrinter]_vars

C16_Witness ==
    /\ printerSelectMode = "last-used"
    /\ selectedPrinter = Undefined
    /\ session = "open"
    /\ spawnCount = 2
    /\ lastUsedPrinter = PrinterHP
    /\ printerToUse = PrinterHP
    /\ lastSpawn.printer = PrinterHP

\* C17: with printer.select = 'save-pdf' a print request spawns nothing by
\* itself and opens the save dialog; the dialog then either is dismissed and
\* nothing is spawned, or one conversion is spawned that writes to the chosen
\* path and carries no --printer argument.
C17_SavePdfNeverPrints ==
    [][/\ (printerSelectMode = "save-pdf" /\ hpc = "ready") =>
              /\ spawnCount' = spawnCount
              /\ lastSpawn' = lastSpawn
       /\ (printerSelectMode = "save-pdf" /\ PrintMessage) => hpc' = "dialog"
       /\ (hpc = "dialog" /\ hpc' # "dialog") =>
              \/ /\ spawnCount' = spawnCount
                 /\ running' = running
                 /\ lastSpawn' = lastSpawn
              \/ /\ spawnCount' = spawnCount + 1
                 /\ running' = running + 1
                 /\ lastSpawn'.printer = Undefined
                 /\ lastSpawn'.pdf \in SaveUris]_vars

C17_Witness ==
    /\ printerSelectMode = "save-pdf"
    /\ selectedPrinter = PrinterHP
    /\ hpc = "ready"
    /\ spawnCount = 1
    /\ lastSpawn = SaveCommand("report.pdf")

\* the clean-up pass runs in this step
CleanStep == cleanTimer /\ ~cleanTimer'

PrintmdPrefix == <<"p", "r", "i", "n", "t", "m", "d", "_">>

\* C18: the clean-up pass never deletes the entry whose path equals
\* currentFolder, whatever its age or name: it is still there afterwards,
\* unchanged.
C18_CurrentFolderKept ==
    [][CleanStep =>
          \A name \in DOMAIN tempEntries :
              (TempDir \o <<"/">> \o name = currentFolder) =>
                  /\ name \notin deleted'
                  /\ name \in DOMAIN tempEntries'
                  /\ tempEntries'[name] = tempEntries[name]]_vars

C18_Witness ==
    /\ ~cleanTimer
    /\ currentFolder = PathJoin(TempDir, NameBare)
    /\ deleted = {NameA}
    /\ NameBare \in DOMAIN tempEntries
    /\ tempEntries[NameBare] = [kind |-> "dir", mtime |-> StartTime - 5 * TwentyMinutes]

\* C19: the pass deletes an entry only if its name starts with 'printmd_', it
\* is a directory, its path is not currentFolder and it was modified more than
\* 20 minutes (1200000 ms) before the pass; every such entry is deleted unless
\* its removal failed; every entry that is not deleted is left as it was.
C19_DeletesOnlyOldPrintmdFolders ==
    [][CleanStep =>
          /\ \A name \in DOMAIN tempEntries :
                LET due ==
                      /\ Len(name) >= 8
                      /\ SubSeq(name, 1, 8) = PrintmdPrefix
                      /\ tempEntries[name].kind = "dir"
                      /\ TempDir \o <<"/">> \o name # currentFolder
                      /\ clock' - tempEntries[name].mtime > 1200000
                IN  /\ name \in deleted' => due
                    /\ due => (name \in deleted' \/ name \in rmFailed')
                    /\ name \in rmFailed' => name \notin deleted'
                    /\ name \notin deleted' =>
                          /\ name \in DOMAIN tempEntries'
                          /\ tempEntries'[name] = tempEntries[name]
          /\ DOMAIN tempEntries' = DOMAIN tempEntries \ deleted'
          /\ deleted' \subseteq DOMAIN tempEntries]_vars

C19_Witness ==
    /\ ~cleanTimer
    /\ clock = StartTime + TwentyMinutes
    /\ deleted = {NameA}
    /\ rmFailed = {}
    /\ currentFolder = <<"/", "o">>
    /\ NameBare \in DOMAIN tempEntries
    /\ tempEntries[NameBare] = [kind |-> "dir", mtime |-> StartTime]
    /\ NameInner \in DOMAIN tempEntries
    /\ tempEntries[NameInner].kind = "dir"
    /\ tempEntries[NameInner].mtime = StartTime - 5 * TwentyMinutes

\* C20: on every platform and for every combination of succeeding and failing
\* pip commands the installer terminates, and its exit status is 0.
C20_AlwaysExitsZero ==
    /\ <>(ipc = "exited")
    /\ [](ipc = "exited" => exitCode = 0)

C20_Witness ==
    /\ ipc = "exited"
    /\ exitCode = 0
    /\ platform = "win32"
    /\ pipOk = {}
    /\ Len(tried) = 1
    /\ printed = "warning"

\* the flags of the pip commands run so far, in order
TriedFlags == [k \in 1..Len(tried) |-> tried[k].flag]

\* C21: outside Windows the strategies run in the order --user, plain,
\* --break-system-packages; a strategy runs only after every earlier one failed
\* and none runs after a success; the manual-installation message is printed
\* only when all three failed. The package list holds pywin32 exactly on win32.
C21_StrategyOrder ==
    /\ platform # "win32" =>
          /\ Len(tried) <= 3
          /\ TriedFlags = SubSeq(<<"--user", "", "--break-system-packages">>, 1, Len(tried))
          /\ \A k \in 1..Len(tried) :
                k < Len(tried) => tried[k].flag \notin pipOk
          /\ (Len(tried) > 0 /\ tried[Len(tried)].flag \in pipOk) =>
                ipc = "exited" /\ printed = "success"
          /\ printed = "manual" =>
                /\ Len(tried) = 3
                /\ pipOk = {}
          /\ (ipc = "exited" /\ pipOk = {}) => printed = "manual"
    /\ ipc \notin {"start", "build"} =>
          /\ \A k \in 1..Len(tried) : tried[k].packages = packages
          /\ (\E k \in 1..Len(packages) : packages[k] = "pywin32") <=> platform = "win32"
          /\ \A p \in {"markdown", "weasyprint", "pygments"} :
                \E k \in 1..Len(packages) : packages[k] = p

C21_Witness ==
    /\ platform = "darwin"
    /\ pipOk = {"--break-system-packages"}
    /\ ipc = "exited"
    /\ Len(tried) = 3
    /\ tried[3].flag = "--break-system-packages"
    /\ printed = "success"
    /\ packages = <<"markdown", "weasyprint", "pygments">>

\* no markdown document among the active editor, the visible editors and the
\* open documents that are not untitled
NoMarkdownDocument(wb) ==
    /\ wb.active # "markdown"
    /\ \A k \in DOMAIN wb.visible : wb.visible[k] # "markdown"
    /\ \A doc \in wb.documents : doc.languageId # "markdown" \/ doc.isUntitled

\* C22: when printMD.print finds no markdown document, or the renderer
\* returns empty HTML, it shows the matching error and has no other effect:
\* no temp file is written, no panel is created, no process is spawned.
C22_NoDocumentNoEffect ==
    [][\A wb \in Workbenches, html \in RenderResults :
          ((NoMarkdownDocument(wb) \/ html = "") /\ PrintMD(wb, html)) =>
              /\ sessions' = sessions
              /\ files' = files
              /\ procs' = procs
              /\ cmdTimers' = cmdTimers
              /\ NoMarkdownDocument(wb) =>
                    shown' = "No markdown file found to print. Please open a markdown file."
              /\ ~NoMarkdownDocument(wb) =>
                    shown' = "Failed to render markdown content."]_vars

C22_Witness ==
    /\ shown = "Failed to render markdown content."
    /\ Len(sessions) = 1
    /\ files = {sessions[1].htmlPath}
    /\ procs = <<>>

ContainsPdf(name) ==
    \E k \in 1..(Len(name) - 2) :
        /\ name[k] \in {"p", "P"}
        /\ name[k + 1] \in {"d", "D"}
        /\ name[k + 2] \in {"f", "F"}

\* C25: whatever printer.select is, a print request whose printer (selected
\* now, or remembered in last-used mode) has 'pdf' in its name in any letter
\* case opens the save dialog and spawns nothing itself, and no spawned command
\* ever names such a printer in --printer; isPdfPrinter(name) is true exactly
\* when the lower-cased name contains 'pdf'.
C25_PdfPrinterSaves ==
    /\ [](\A name \in Printers \cup {<<"p", "d", " ", "f">>, <<"F", "D", "P">>,
                                     <<"A", "d", "o", "b", "e", " ", "P", "D", "F">>} :
              isPdfPrinter(name) <=> ContainsPdf(name))
    /\ [][/\ (/\ PrintMessage
              /\ \/ Truthy(selectedPrinter) /\ ContainsPdf(selectedPrinter)
                 \/ /\ ~Truthy(selectedPrinter)
                    /\ printerSelectMode = "last-used"
                    /\ Truthy(lastUsedPrinter)
                    /\ ContainsPdf(lastUsedPrinter)) =>
                 /\ hpc' = "dialog"
                 /\ spawnCount' = spawnCount
                 /\ lastSpawn' = lastSpawn
          /\ (spawnCount' # spawnCount /\ Truthy(lastSpawn'.printer)) =>
                 ~ContainsPdf(lastSpawn'.printer)]_vars

C25_Witness ==
    /\ printerSelectMode = "default"
    /\ selectedPrinter = PrinterMyPdf
    /\ printerToUse = PrinterMyPdf
    /\ hpc = "dialog"
    /\ spawnCount = 0

\* C26: any two invocations of printMD.print, also two within the same
\* millisecond, use different htmlPath and different pdfPath.
C26_DistinctTempPaths ==
    \A a, b \in 1..Len(sessions) :
        a # b =>
            /\ sessions[a].htmlPath # sessions[b].htmlPath
            /\ sessions[a].pdfPath # sessions[b].pdfPath

\* C27: a pass that measured a negative height runs the loop body never and
\* inserts no indicator, without an error: as for a height of 0, its result is
\* no marker, with the heuristic's variables at their initial values.
C27_NegativeHeightNoPages ==
    (totalHeight < 0 /\ (InPass \/ PassFinished)) =>
        /\ numPages <= 0
        /\ pc \in {"loop", "idle"}
        /\ i = 0
        /\ children = <<>>
        /\ error = "none"
        /\ pageBreakMarginTop = 60
        /\ topMarIncrementer = 96
        /\ topMarIncrementCount = 0

C27_Witness ==
    /\ totalHeight = -913
    /\ numPages = -1
    /\ passes = 1
    /\ pc = "idle"
    /\ children = <<>>
    /\ error = "none"

====
